---- MODULE Spec2Model ----
(***************************************************************************)
(* A model of mirror's Scheduler (src/mirror/scheduler.py): the task set,  *)
(* the queue of next run times, the sleep -> wake -> schedule main loop,   *)
(* the admission decision of schedule_task and the exit notification       *)
(* stop_task_with_pid, which may arrive between any two steps of the loop. *)
(* Time is in whole seconds.                                               *)
(***************************************************************************)
EXTENDS Integers, Sequences, FiniteSets

\* ------------------------------------------------------------------ bounds
NumTasks == 2
MaxTime  == 200
MaxExits == 2
MaxDefer == 1

\* ------------------------------------------------------- program constants
loadlimit    == 4
httpconn     == 1200
DelaySeconds == 1800
Minute       == 60
EmptySleep   == 5
HighPriority == 4

Mirrors       == 1..NumTasks
Pids          == 1..(NumTasks + 1)
MaxTasksCfg   == 1..NumTasks
Priorities    == {HighPriority, HighPriority + 1}
Period(m)     == 60 + 30 * (m - 1)
Samples       == {<<loadlimit, httpconn>>, <<loadlimit + 1, httpconn>>,
                  <<loadlimit, httpconn + 1>>}
Overshoots    == {0, 30}

VARIABLES
    tasks,         \* self.tasks: mirror -> Task (priority, enabled, running, pid, period)
    queue,         \* self.queue: mirror -> next run time, a partial function
    mirrors,       \* self.mirrors: the queue's keys, sorted by time in sleep()
    maxtasks,      \* self.maxtasks
    current_load,  \* self.current_load, sampled by init_sysinfo
    current_conn,  \* self.current_conn, sampled by init_sysinfo
    now,           \* time.time()
    timestamp,     \* schedule()'s local: start of the current minute
    idx,           \* position of schedule()'s for loop in mirrors
    pc,            \* where the main loop is: "sleep", "wake", "schedule", "crashed";
                   \* statement by statement also "append", "sort", "run_del"; for
                   \* the methods called one by one "idle", "stop_loop", "stop_wait",
                   \* "stopped"
    exits,         \* number of exit notifications delivered so far
    last,          \* the last step taken and what it saw (the log record)
    signalled,     \* the pids of live or unreaped processes a signal was sent to
    dead,          \* pids of processes that have exited, the exit not yet notified
    eligible       \* the tasks enabled and not running when the append_tasks() in
                   \* progress was entered

vars == <<tasks, queue, mirrors, maxtasks, current_load, current_conn,
          now, timestamp, idx, pc, exits, last, signalled, dead, eligible>>

\* ------------------------------------------------------------------- Task
\* Task.get_schedule_time(since): the next multiple of the task's period
\* strictly after the reference instant.
get_schedule_time(task, since) == ((since \div task.period) + 1) * task.period

\* Task.run(): spawn the process, record its pid, set the running flag.
Task_run(task, p) == [task EXCEPT !.running = TRUE, !.pid = p]

\* Task.set_stop_flag(): the process has exited.
Task_set_stop_flag(task) == [task EXCEPT !.running = FALSE, !.pid = 0]

NewTask(prio, en, per) ==
    [priority |-> prio, enabled |-> en, running |-> FALSE, pid |-> 0, period |-> per]

\* ---------------------------------------------------------------- helpers
Remove(q, m) == [x \in (DOMAIN q) \ {m} |-> q[x]]

RunningSet(ts) == {m \in Mirrors : ts[m].running}

NumRunning == Cardinality(RunningSet(tasks))

FreePids == Pids \ {tasks[m].pid : m \in RunningSet(tasks)}

NoStep == [kind |-> "init", task |-> 0, qtime |-> 0, added |-> {}]

\* --------------------------------------------------------------- Scheduler
\* the operands of the subtraction swapped
count_running_tasks_swapped(q) == Cardinality(DOMAIN q) - Cardinality(Mirrors)

\* count_running_tasks(): len(self.tasks) - len(self.queue)
count_running_tasks(q) == Cardinality(Mirrors) - Cardinality(DOMAIN q)

\* "=" written for "+=": the queued time is set to the delay
delay_task_assign(q, m) ==
    IF m \notin DOMAIN q THEN q ELSE [q EXCEPT ![m] = DelaySeconds]

\* delay_task(mirror): a queued task's time grows by delay_seconds.
delay_task(q, m) ==
    IF m \notin DOMAIN q THEN q ELSE [q EXCEPT ![m] = @ + DelaySeconds]

\* the test of task.running left out
append_tasks_running(ts, q, t) ==
    LET add == {m \in Mirrors : m \notin DOMAIN q /\ ts[m].enabled}
    IN  [m \in (DOMAIN q) \cup add |->
            IF m \in DOMAIN q THEN q[m] ELSE get_schedule_time(ts[m], t)]

\* the test of task.enabled left out
append_tasks_disabled(ts, q, t) ==
    LET add == {m \in Mirrors : m \notin DOMAIN q /\ ~ts[m].running}
    IN  [m \in (DOMAIN q) \cup add |->
            IF m \in DOMAIN q THEN q[m] ELSE get_schedule_time(ts[m], t)]

\* "break" written for "continue": the loop ends at the first task it skips
append_tasks_break(ts, q, t) ==
    LET ok(m) == m \notin DOMAIN q /\ ~ts[m].running /\ ts[m].enabled
        add   == {m \in Mirrors : \A k \in Mirrors : k <= m => ok(k)}
    IN  [m \in (DOMAIN q) \cup add |->
            IF m \in DOMAIN q THEN q[m] ELSE get_schedule_time(ts[m], t)]

\* append_tasks(): every task that is not queued, not running and enabled is
\* queued at its get_schedule_time(now).
append_tasks(ts, q, t) ==
    LET add == {m \in Mirrors : /\ m \notin DOMAIN q
                                /\ ~ts[m].running
                                /\ ts[m].enabled}
    IN  [m \in (DOMAIN q) \cup add |->
            IF m \in DOMAIN q THEN q[m] ELSE get_schedule_time(ts[m], t)]

\* sorted(self.queue), the key left out: the queue's keys in name order
SortedMirrors_by_name(q) ==
    LET n == Cardinality(DOMAIN q)
    IN  {s \in [1..n -> DOMAIN q] : \A i, j \in 1..n : i < j => s[i] < s[j]}

\* sorted(self.queue, key = self.queue.get): the queue's keys in ascending
\* time; the order of equal times is the dict's iteration order, any order.
SortedMirrors(q) ==
    LET n == Cardinality(DOMAIN q)
    IN  {s \in [1..n -> DOMAIN q] :
            /\ \A i, j \in 1..n : i # j => s[i] # s[j]
            /\ \A i, j \in 1..n : i < j => q[s[i]] <= q[s[j]]}

\* the last mirror of the sorted list taken for the first
SleepTime_last(q, ms, t) ==
    IF Len(ms) > 0 THEN q[ms[Len(ms)]] - t ELSE EmptySleep

\* sleep(): the duration handed to time.sleep(), which raises when it is
\* negative.
SleepTime(q, ms, t) ==
    IF Len(ms) > 0 THEN q[ms[1]] - t ELSE EmptySleep

\* ">" written for ">=" and "<=" for "<" at the window end
WindowTest_late(qt, ts) ==
    IF qt > ts + Minute THEN "return"
    ELSE IF qt >= ts /\ qt <= ts + Minute THEN "schedule"
    ELSE "pass"

\* schedule(): the loop's test on one queued time: "return" at or after the
\* window end, "schedule" inside the window, "pass" otherwise.
WindowTest(qt, ts) ==
    IF qt >= ts + Minute THEN "return"
    ELSE IF qt >= ts /\ qt < ts + Minute THEN "schedule"
    ELSE "pass"

\* the running-tasks test skipped for high priority, like the two before it
Admission_bypass(task, load, conn, q, maxt) ==
    IF load > loadlimit /\ task.priority > HighPriority THEN "load"
    ELSE IF conn > httpconn /\ task.priority > HighPriority THEN "conn"
    ELSE IF count_running_tasks(q) >= maxt /\ task.priority > HighPriority
         THEN "maxtasks"
    ELSE "run"

\* schedule_task(mirror): the admission decision.
Admission(task, load, conn, q, maxt) ==
    IF load > loadlimit /\ task.priority > HighPriority THEN "load"
    ELSE IF conn > httpconn /\ task.priority > HighPriority THEN "conn"
    ELSE IF count_running_tasks(q) >= maxt THEN "maxtasks"
    ELSE "run"

\* run_task(mirror): start the task unless it is running, then drop its
\* queue entry.
run_task(ts, q, m, p) ==
    IF m \notin Mirrors THEN [tasks |-> ts, queue |-> q]
    ELSE IF ts[m].running
    THEN [tasks |-> ts, queue |-> q]
    ELSE [tasks |-> [ts EXCEPT ![m] = Task_run(@, p)],
          queue |-> IF m \in DOMAIN q THEN Remove(q, m) ELSE q]

\* run_task(mirror) up to task.run(): a task that is not running is started
run_start(ts, m, p) ==
    IF m \notin Mirrors THEN ts
    ELSE IF ts[m].running THEN ts
    ELSE [ts EXCEPT ![m] = Task_run(@, p)]

\* the "del" left out
del_entry_skip(q, m) == q

\* run_task(mirror) after task.run(): the queue entry is dropped
del_entry(q, m) == IF m \in DOMAIN q THEN Remove(q, m) ELSE q

\* one iteration of append_tasks()'s loop, for the task it is at
append_visit(ts, q, m, t) ==
    IF m \in DOMAIN q THEN q
    ELSE IF ts[m].running THEN q
    ELSE IF ~ts[m].enabled THEN q
    ELSE [x \in (DOMAIN q) \cup {m} |->
             IF x = m THEN get_schedule_time(ts[m], t) ELSE q[x]]

\* the stop flag set right after the signal is sent
stop_task_flag(ts, m) ==
    IF m \notin Mirrors THEN [tasks |-> ts, sent |-> {}]
    ELSE IF ~ts[m].running THEN [tasks |-> ts, sent |-> {}]
    ELSE [tasks |-> [ts EXCEPT ![m] = Task_set_stop_flag(@)], sent |-> {ts[m].pid}]

\* the test of task.running left out
stop_task_always(ts, m) ==
    IF m \notin Mirrors THEN [tasks |-> ts, sent |-> {}]
    ELSE [tasks |-> ts, sent |-> {ts[m].pid}]

\* stop_task(mirror): send the termination signal to a running task's
\* process; sent is the pid signalled, if any.
stop_task(ts, m) ==
    IF m \notin Mirrors THEN [tasks |-> ts, sent |-> {}]
    ELSE IF ~ts[m].running THEN [tasks |-> ts, sent |-> {}]
    ELSE [tasks |-> ts, sent |-> {ts[m].pid}]

\* os.waitpid(pid, os.WNOHANG) written for os.waitpid(pid, 0)
waitpid_nohang(p, d) == TRUE

\* os.waitpid(pid, 0) in stop_all_tasks returns once the process has exited
waitpid_returns(p, d) == p \in d

\* stop_all_tasks(): what the loop does with one task
stop_all_visit(task) == IF ~task.running THEN "continue" ELSE "stop"

\* "!=" written for "==" in the pid test
stop_task_with_pid_other(ts, p) ==
    LET owners == {m \in Mirrors : ts[m].pid # p}
    IN  IF owners = {} THEN ts
        ELSE LET m == CHOOSE x \in owners : \A y \in owners : x <= y
             IN  [ts EXCEPT ![m] = Task_set_stop_flag(@)]

\* stop_task_with_pid(pid, status): the first task, in task-set order, whose
\* pid is the given one gets its stop flag set.
stop_task_with_pid(ts, p) ==
    LET owners == {m \in Mirrors : ts[m].pid = p}
    IN  IF owners = {} THEN ts
        ELSE LET m == CHOOSE x \in owners : \A y \in owners : x <= y
             IN  [ts EXCEPT ![m] = Task_set_stop_flag(@)]

\* ------------------------------------------------------------------- Init
Init ==
    /\ \E pr \in [Mirrors -> Priorities], en \in [Mirrors -> BOOLEAN] :
          tasks = [m \in Mirrors |-> NewTask(pr[m], en[m], Period(m))]
    /\ queue = << >>
    /\ mirrors = << >>
    /\ maxtasks \in MaxTasksCfg
    /\ current_load = 0
    /\ current_conn = 0
    /\ now = 0
    /\ timestamp = 0
    /\ idx = 1
    /\ pc = "sleep"
    /\ exits = 0
    /\ last = NoStep
    /\ signalled = {}
    /\ dead = {}
    /\ eligible = {}

\* ---------------------------------------------------------------- actions
\* sleep(): compute the queue, sort it, sleep until the earliest time.
Sleep ==
    /\ pc = "sleep"
    /\ LET q  == append_tasks(tasks, queue, now)
       IN  \E ms \in SortedMirrors(q) :
           LET st == SleepTime(q, ms, now)
           IN  /\ queue' = q
               /\ mirrors' = ms
               /\ IF st < 0
                  THEN /\ pc' = "crashed"
                       /\ now' = now
                       /\ last' = [NoStep EXCEPT !.kind = "sleep_error", !.qtime = now,
                                      !.added = (DOMAIN q) \ (DOMAIN queue)]
                  ELSE \E late \in Overshoots :
                       /\ now + st + late <= MaxTime
                       /\ now' = now + st + late
                       /\ pc' = "wake"
                       /\ last' = [NoStep EXCEPT !.kind = "sleep", !.qtime = now,
                                      !.added = (DOMAIN q) \ (DOMAIN queue)]
    /\ UNCHANGED <<tasks, maxtasks, current_load, current_conn, timestamp, idx, exits,
                   signalled, dead, eligible>>

\* schedule(), up to the for loop: sample the system, compute the window.
Wake ==
    /\ pc = "wake"
    /\ \E s \in Samples : current_load' = s[1] /\ current_conn' = s[2]
    /\ IF Len(mirrors) > 0
       THEN /\ timestamp' = now - (now % Minute)
            /\ idx' = 1
            /\ pc' = "schedule"
            /\ last' = [NoStep EXCEPT !.kind = "wake"]
       ELSE /\ pc' = "sleep"
            /\ last' = [NoStep EXCEPT !.kind = "nothing"]
            /\ UNCHANGED <<timestamp, idx>>
    /\ UNCHANGED <<tasks, queue, mirrors, maxtasks, now, exits, signalled, dead,
                   eligible>>

\* the for loop goes on to the next mirror, or schedule() returns
AfterTask == IF idx + 1 > Len(mirrors) THEN "sleep" ELSE "schedule"

\* the loop looks at the same position again
NextIdx_again == IF idx + 1 > Len(mirrors) THEN 1 ELSE idx

NextIdx == IF idx + 1 > Len(mirrors) THEN 1 ELSE idx + 1

\* one iteration of schedule()'s for loop
ScheduleStep ==
    /\ pc = "schedule"
    /\ LET m    == mirrors[idx]
           test == WindowTest(queue[m], timestamp)
           seen == [NoStep EXCEPT !.task = m, !.qtime = queue[m]]
       IN  CASE test = "return" ->
                  /\ pc' = "sleep"
                  /\ idx' = 1
                  /\ last' = [seen EXCEPT !.kind = "return"]
                  /\ UNCHANGED <<tasks, queue>>
             [] test = "pass" ->
                  /\ pc' = AfterTask
                  /\ idx' = NextIdx
                  /\ last' = [seen EXCEPT !.kind = "pass"]
                  /\ UNCHANGED <<tasks, queue>>
             [] test = "schedule" ->
                  LET why == Admission(tasks[m], current_load, current_conn,
                                       queue, maxtasks)
                  IN  /\ pc' = AfterTask
                      /\ idx' = NextIdx
                      /\ IF why = "run"
                         THEN \E p \in FreePids :
                              LET r == run_task(tasks, queue, m, p)
                              IN  /\ tasks' = r.tasks
                                  /\ queue' = r.queue
                                  /\ last' = [seen EXCEPT !.kind = "run"]
                         ELSE /\ queue' = delay_task(queue, m)
                              /\ tasks' = tasks
                              /\ last' = [seen EXCEPT !.kind = why]
    /\ UNCHANGED <<mirrors, maxtasks, current_load, current_conn, now, timestamp, exits,
                   signalled, dead, eligible>>

\* stop_task_with_pid(pid, status), called when a child process has exited
ExitNotify ==
    /\ pc # "crashed"
    /\ exits < MaxExits
    /\ exits' = exits + 1
    /\ \E p \in Pids :
       /\ tasks' = stop_task_with_pid(tasks, p)
       /\ last' = [NoStep EXCEPT !.kind = "exit",
                      !.task = IF \E m \in RunningSet(tasks) : tasks[m].pid = p
                               THEN CHOOSE m \in RunningSet(tasks) : tasks[m].pid = p
                               ELSE 0]
    /\ UNCHANGED <<queue, mirrors, maxtasks, current_load, current_conn,
                   now, timestamp, idx, pc, signalled, dead, eligible>>

Next == Sleep \/ Wake \/ ScheduleStep \/ ExitNotify

Spec == Init /\ [][Next]_vars


\* ---------------------------------------------- the methods, called one by one
\* Every method of the Scheduler called with any argument, from any
\* assignment of running flags and queue entries to the enabled tasks; 0 is a
\* mirror name that is not in self.tasks.
AnyMirror == Mirrors \cup {0}

OpsInit ==
    /\ \E en \in [Mirrors -> BOOLEAN] :
       \E run \in SUBSET {m \in Mirrors : en[m]} :
          tasks = [m \in Mirrors |->
                     IF m \in run
                     THEN Task_run(NewTask(HighPriority + 1, en[m], Period(m)), m)
                     ELSE NewTask(HighPriority + 1, en[m], Period(m))]
    /\ \E qd \in SUBSET {m \in Mirrors : tasks[m].enabled} :
          queue = [m \in qd |-> Period(m)]
    /\ mirrors = << >>
    /\ maxtasks = NumTasks
    /\ current_load = 0
    /\ current_conn = 0
    /\ now = 0
    /\ timestamp = 0
    /\ idx = 1
    /\ pc = "idle"
    /\ exits = 0
    /\ last = NoStep
    /\ signalled = {}
    /\ dead = {}
    /\ eligible = {}

OpsFrame == UNCHANGED <<mirrors, maxtasks, current_load, current_conn, now, timestamp,
                        eligible>>

\* stop_task(mirror)
OpStopTask ==
    /\ pc = "idle"
    /\ \E m \in AnyMirror :
       LET r == stop_task(tasks, m)
       IN  /\ tasks' = r.tasks
           /\ signalled' = signalled \cup r.sent
           /\ last' = [NoStep EXCEPT !.kind = "stop_task", !.task = m]
    /\ OpsFrame
    /\ UNCHANGED <<queue, idx, pc, exits, dead>>

\* delay_task(mirror)
OpDelayTask ==
    /\ pc = "idle"
    /\ \E m \in AnyMirror :
       /\ m \in DOMAIN queue => queue[m] < MaxDefer * DelaySeconds
       /\ queue' = delay_task(queue, m)
       /\ last' = [NoStep EXCEPT !.kind = "delay_task", !.task = m]
    /\ OpsFrame
    /\ UNCHANGED <<tasks, idx, pc, exits, signalled, dead>>

\* the pid the next process gets
LeastFreePid == CHOOSE p \in FreePids : \A x \in FreePids : p <= x

\* run_task(mirror)
OpRunTask ==
    /\ pc = "idle"
    /\ \E m \in AnyMirror :
       LET r == run_task(tasks, queue, m, LeastFreePid)
       IN  /\ tasks' = r.tasks
           /\ queue' = r.queue
           /\ last' = [NoStep EXCEPT !.kind = "run_task", !.task = m]
    /\ OpsFrame
    /\ UNCHANGED <<idx, pc, exits, signalled, dead>>

\* append_tasks()
OpAppendTasks ==
    /\ pc = "idle"
    /\ queue' = append_tasks(tasks, queue, now)
    /\ last' = [NoStep EXCEPT !.kind = "append_tasks",
                              !.added = (DOMAIN queue') \ (DOMAIN queue)]
    /\ OpsFrame
    /\ UNCHANGED <<tasks, idx, pc, exits, signalled, dead>>

\* the process of a running task exits
ProcExit ==
    /\ pc # "stopped"
    /\ \E m \in RunningSet(tasks) :
       /\ tasks[m].pid \notin dead
       /\ dead' = dead \cup {tasks[m].pid}
       /\ last' = [NoStep EXCEPT !.kind = "proc_exit", !.task = m]
    /\ OpsFrame
    /\ UNCHANGED <<tasks, queue, idx, pc, exits, signalled>>

Owner(p) == IF \E m \in RunningSet(tasks) : tasks[m].pid = p
            THEN CHOOSE m \in RunningSet(tasks) : tasks[m].pid = p
            ELSE 0

\* stop_task_with_pid(pid, status) for a process that has exited, or for a
\* pid of no task; while stop_all_tasks is at a task or past it, that task's
\* exit is taken by its waitpid.
OpExitNotify ==
    /\ pc # "stopped"
    /\ \E p \in Pids :
       /\ Owner(p) # 0 => p \in dead
       /\ pc = "stop_loop" => (Owner(p) = 0 \/ Owner(p) >= idx)
       /\ pc = "stop_wait" => (Owner(p) = 0 \/ Owner(p) > idx)
       /\ tasks' = stop_task_with_pid(tasks, p)
       /\ dead' = dead \ {p}
       /\ signalled' = signalled \ {p}
       /\ last' = [NoStep EXCEPT !.kind = "exit", !.task = Owner(p)]
    /\ OpsFrame
    /\ UNCHANGED <<queue, idx, pc, exits>>

\* stop_all_tasks() is called
BeginStopAll ==
    /\ pc = "idle"
    /\ pc' = "stop_loop"
    /\ idx' = 1
    /\ last' = [NoStep EXCEPT !.kind = "stop_all_tasks"]
    /\ OpsFrame
    /\ UNCHANGED <<tasks, queue, exits, signalled, dead>>

\* stop_all_tasks(): the loop reaches a task, skips it or signals it
StopAllStep ==
    /\ pc = "stop_loop"
    /\ IF idx > NumTasks
       THEN /\ pc' = "stopped"
            /\ last' = [NoStep EXCEPT !.kind = "stopped"]
            /\ UNCHANGED <<idx, signalled>>
       ELSE IF stop_all_visit(tasks[idx]) = "continue"
       THEN /\ idx' = idx + 1
            /\ last' = [NoStep EXCEPT !.kind = "stop_skip", !.task = idx]
            /\ UNCHANGED <<pc, signalled>>
       ELSE /\ signalled' = signalled \cup {tasks[idx].pid}
            /\ pc' = "stop_wait"
            /\ last' = [NoStep EXCEPT !.kind = "stop_signal", !.task = idx]
            /\ UNCHANGED idx
    /\ OpsFrame
    /\ UNCHANGED <<tasks, queue, exits, dead>>

\* stop_all_tasks(): os.waitpid(pid, 0) returns
StopAllWait ==
    /\ pc = "stop_wait"
    /\ waitpid_returns(tasks[idx].pid, dead)
    /\ pc' = "stop_loop"
    /\ idx' = idx + 1
    /\ last' = [NoStep EXCEPT !.kind = "stop_waited", !.task = idx]
    /\ OpsFrame
    /\ UNCHANGED <<tasks, queue, exits, signalled, dead>>

OpsNext ==
    \/ OpStopTask \/ OpDelayTask \/ OpRunTask \/ OpAppendTasks
    \/ ProcExit \/ OpExitNotify
    \/ BeginStopAll \/ StopAllStep \/ StopAllWait

OpsSpec == OpsInit /\ [][OpsNext]_vars

\* ------------------------------------- the main loop, statement by statement
\* The main loop with run_task and append_tasks taken one statement at a
\* time, an exit notification possible between any two of them.

\* sleep() calls append_tasks(): "now" is read, the loop over self.tasks begins
BeginAppend ==
    /\ pc = "sleep"
    /\ pc' = "append"
    /\ idx' = 1
    /\ eligible' = {m \in Mirrors : tasks[m].enabled /\ ~tasks[m].running}
    /\ last' = [NoStep EXCEPT !.kind = "append_begin"]
    /\ UNCHANGED <<tasks, queue, mirrors, maxtasks, current_load, current_conn, now,
                   timestamp, exits, signalled, dead>>

\* one iteration of append_tasks()'s loop
AppendVisit ==
    /\ pc = "append"
    /\ queue' = append_visit(tasks, queue, idx, now)
    /\ IF idx + 1 > NumTasks
       THEN pc' = "sort" /\ idx' = 1
       ELSE pc' = pc /\ idx' = idx + 1
    /\ last' = [NoStep EXCEPT !.kind = "append_visit", !.task = idx]
    /\ UNCHANGED <<tasks, mirrors, maxtasks, current_load, current_conn, now,
                   timestamp, exits, signalled, dead, eligible>>

\* sleep() after append_tasks(): sort the queue, sleep until the earliest time
SortSleep ==
    /\ pc = "sort"
    /\ \E ms \in SortedMirrors(queue) :
       LET st == SleepTime(queue, ms, now)
       IN  /\ mirrors' = ms
           /\ IF st < 0
              THEN /\ pc' = "crashed"
                   /\ now' = now
                   /\ last' = [NoStep EXCEPT !.kind = "sleep_error", !.qtime = now]
              ELSE \E late \in Overshoots :
                   /\ now + st + late <= MaxTime
                   /\ now' = now + st + late
                   /\ pc' = "wake"
                   /\ last' = [NoStep EXCEPT !.kind = "sleep", !.qtime = now]
    /\ eligible' = {}
    /\ UNCHANGED <<tasks, queue, maxtasks, current_load, current_conn, timestamp, idx,
                   exits, signalled, dead>>

\* one iteration of schedule()'s for loop; for an admitted task it goes as
\* far as task.run()
FineScheduleStep ==
    /\ pc = "schedule"
    /\ LET m == mirrors[idx]
       IN  IF /\ WindowTest(queue[m], timestamp) = "schedule"
              /\ Admission(tasks[m], current_load, current_conn, queue, maxtasks) = "run"
           THEN /\ \E p \in FreePids : tasks' = run_start(tasks, m, p)
                /\ IF tasks[m].running
                   THEN /\ pc' = AfterTask
                        /\ idx' = NextIdx
                        /\ last' = [NoStep EXCEPT !.kind = "run_skip", !.task = m,
                                                  !.qtime = queue[m]]
                   ELSE /\ pc' = "run_del"
                        /\ idx' = idx
                        /\ last' = [NoStep EXCEPT !.kind = "run", !.task = m,
                                                  !.qtime = queue[m]]
                /\ UNCHANGED <<queue, mirrors, maxtasks, current_load, current_conn,
                               now, timestamp, exits, signalled, dead, eligible>>
           ELSE ScheduleStep

\* run_task() after task.run(): the queue entry is dropped, the loop goes on
RunDel ==
    /\ pc = "run_del"
    /\ queue' = del_entry(queue, mirrors[idx])
    /\ pc' = AfterTask
    /\ idx' = NextIdx
    /\ last' = [NoStep EXCEPT !.kind = "run_done", !.task = mirrors[idx]]
    /\ UNCHANGED <<tasks, mirrors, maxtasks, current_load, current_conn, now,
                   timestamp, exits, signalled, dead, eligible>>

FineNext ==
    \/ BeginAppend \/ AppendVisit \/ SortSleep \/ Wake
    \/ FineScheduleStep \/ RunDel \/ ExitNotify

\* the tasks' priorities do not matter to the interleaving: all low
FineInit == Init /\ \A m \in Mirrors : tasks[m].priority = HighPriority + 1

FineSpec == FineInit /\ [][FineNext]_vars

\* ----------------------------------------------------------------- claims
\* a step of schedule()'s for loop, on the mirror the loop is at
PassStep == pc = "schedule" /\ exits' = exits

\* a step of sleep()
SleepStep == pc = "sleep" /\ exits' = exits

\* an exit notification
ExitStep == exits' # exits

Current == mirrors[idx]

end == timestamp + Minute

InWindow(m) == queue[m] >= timestamp /\ queue[m] < end

Started(m) == tasks'[m].running /\ m \notin DOMAIN queue'

Deferred(m) ==
    /\ tasks'[m] = tasks[m]
    /\ m \in DOMAIN queue'
    /\ queue'[m] = queue[m] + DelaySeconds

C2_MaxConcurrency == NumRunning <= maxtasks

C2_Witness ==
    /\ pc = "schedule"
    /\ NumRunning = maxtasks
    /\ exits > 0
    /\ \E m \in DOMAIN queue : InWindow(m) /\ tasks[m].priority <= HighPriority

\* C3: a task of any priority that reaches the admission decision while the
\* number of running tasks is maxtasks or more is not started: it stays in
\* the queue and its queued time grows by 1800.
C3_CeilingDefers ==
    [][(PassStep /\ InWindow(Current) /\ NumRunning >= maxtasks)
          => Deferred(Current)]_vars

C3_Witness ==
    /\ last.kind = "maxtasks"
    /\ tasks[last.task].priority <= HighPriority
    /\ NumRunning = maxtasks
    /\ queue[last.task] = last.qtime + DelaySeconds

\* C4: a task of priority <= 4 that is due in the pass is started and removed
\* from the queue whenever the number of tasks actually running is below
\* maxtasks, whatever the sampled load and connection count.
C4_HighPriorityRuns ==
    [][(/\ PassStep
        /\ InWindow(Current)
        /\ tasks[Current].priority <= HighPriority
        /\ NumRunning < maxtasks)
          => Started(Current)]_vars

\* C5: a task of priority > 4 considered while the load or the connection
\* count is above its ceiling is not started, stays queued, and its queued
\* time becomes its previous value plus 1800; the queued time of an entry
\* that stays in the queue never decreases.
C5_LoadDefers ==
    [][/\ (/\ PassStep
           /\ InWindow(Current)
           /\ tasks[Current].priority > HighPriority
           /\ (current_load > loadlimit \/ current_conn > httpconn))
             => Deferred(Current)
       /\ \A m \in (DOMAIN queue) \cap (DOMAIN queue') : queue'[m] >= queue[m]
      ]_vars

C5_Witness ==
    /\ last.kind \in {"load", "conn"}
    /\ tasks[last.task].priority > HighPriority
    /\ ~tasks[last.task].running
    /\ queue[last.task] = last.qtime + DelaySeconds

\* C6: a queued task whose time is before the start of the current minute is
\* treated as due: the pass takes the admission decision on it, so it is
\* either started and removed from the queue or deferred.
C6_OverdueIsDue ==
    [][(PassStep /\ queue[Current] < timestamp)
          => (Started(Current) \/ Deferred(Current))]_vars

\* C7: a pass considers the tasks in ascending order of queued time and ends
\* at the first task whose time is at or after the window end: that step and
\* the pass change no task at or after that position.
C7_OrderAndStop ==
    [][PassStep =>
          /\ \A j \in idx..Len(mirrors) : queue[Current] <= queue[mirrors[j]]
          /\ \A j \in (idx + 1)..Len(mirrors) :
                /\ tasks'[mirrors[j]] = tasks[mirrors[j]]
                /\ mirrors[j] \in DOMAIN queue'
                /\ queue'[mirrors[j]] = queue[mirrors[j]]
          /\ queue[Current] >= end =>
                /\ pc' = "sleep"
                /\ queue' = queue
                /\ tasks' = tasks
      ]_vars

C7_Witness ==
    /\ last.kind = "return"
    /\ last.qtime >= end
    /\ last.task \in DOMAIN queue
    /\ queue[last.task] = last.qtime
    /\ \E m \in Mirrors : tasks[m].running

\* C8: a task that is enabled and not running is in the queue after the next
\* queue computation of sleep(), which inserts it at its get_schedule_time(now).
C8_Requeued ==
    [][SleepStep =>
          \A m \in Mirrors : (tasks[m].enabled /\ ~tasks[m].running) =>
              /\ m \in DOMAIN queue'
              /\ m \notin DOMAIN queue =>
                    queue'[m] = get_schedule_time(tasks[m], now)
      ]_vars

C8_Witness ==
    /\ last.kind = "sleep"
    /\ last.qtime > 0
    /\ exits > 0
    /\ \E m \in last.added :
          /\ m \in DOMAIN queue
          /\ queue[m] = get_schedule_time(tasks[m], last.qtime)

\* C9: a task whose enabled flag is false is never in the queue and is never
\* running.
C9_DisabledNeverQueued ==
    \A m \in Mirrors :
        ~tasks[m].enabled => (m \notin DOMAIN queue /\ ~tasks[m].running)

C9_Witness ==
    /\ \E m \in Mirrors : ~tasks[m].enabled
    /\ \E m \in Mirrors : tasks[m].running
    /\ last.kind = "sleep"

\* C10: an exit notification for a pid that belongs to no running task
\* changes no task and no queue entry and does not disturb the main loop.
C10_UnknownPid ==
    [][(ExitStep /\ last'.task = 0) =>
          UNCHANGED <<tasks, queue, mirrors, pc, idx, now>>]_vars

C10_Witness ==
    /\ last.kind = "exit"
    /\ last.task = 0
    /\ \E m \in Mirrors : tasks[m].running

\* a step of schedule() before its for loop
WakeStep == pc = "wake" /\ exits' = exits

MinQueued(q) == CHOOSE t \in {q[m] : m \in DOMAIN q} : \A m \in DOMAIN q : t <= q[m]

\* the mirrors the for loop has already been at in this pass
Considered == {mirrors[i] : i \in 1..(idx - 1)}

\* C14: the main loop has no terminal state: no deferral, failed start or
\* stale state of a task ends it.
C14_NoTerminalState == pc # "crashed"

\* C15: whenever the running-tasks test of schedule_task is evaluated, the
\* value it uses, len(tasks) - len(queue), is the number of tasks whose
\* running flag is true.
C15_CountIsRunning ==
    [][(/\ PassStep
        /\ InWindow(Current)
        /\ Admission(tasks[Current], current_load, current_conn, queue, maxtasks)
              \in {"maxtasks", "run"})
          => count_running_tasks(queue) = NumRunning]_vars

\* C16: sleep() with a non-empty queue sleeps until the earliest queued time,
\* so the wake that follows is not before it; with an empty queue it sleeps
\* 5 and the pass that follows starts and defers nothing.
C16_SleepUntilEarliest ==
    [][/\ SleepStep =>
            IF DOMAIN queue' = {}
            THEN /\ pc' = "wake"
                 /\ (now' - now) - EmptySleep \in Overshoots
            ELSE pc' = "wake" =>
                    /\ now' >= MinQueued(queue')
                    /\ now' - MinQueued(queue') \in Overshoots
       /\ (WakeStep /\ DOMAIN queue = {}) =>
            /\ pc' = "sleep"
            /\ UNCHANGED <<tasks, queue>>
      ]_vars

C16_Witness ==
    /\ last.kind = "sleep"
    /\ Len(mirrors) > 1
    /\ queue[mirrors[1]] < queue[mirrors[2]]
    /\ now >= queue[mirrors[1]]
    /\ now < queue[mirrors[2]]

\* C19: a pass is at each task at most once: a task the pass has been at is
\* not changed again in that pass, so its queued time grows by at most one
\* delay per wake.
C19_OncePerPass ==
    [][PassStep =>
          /\ Current \notin Considered
          /\ mirrors' = mirrors
          /\ pc' = "sleep" \/ idx' = idx + 1
          /\ \A m \in Considered :
                /\ tasks'[m].running = tasks[m].running
                /\ m \in DOMAIN queue => (m \in DOMAIN queue' /\ queue'[m] = queue[m])
                /\ m \notin DOMAIN queue => m \notin DOMAIN queue'
          /\ Current \in DOMAIN queue' =>
                queue'[Current] \in {queue[Current], queue[Current] + DelaySeconds}
      ]_vars

C19_Witness ==
    /\ pc = "schedule"
    /\ idx = 2
    /\ last.kind \in {"load", "conn", "maxtasks"}
    /\ last.task = mirrors[1]
    /\ queue[mirrors[1]] = last.qtime + DelaySeconds
    /\ queue[mirrors[1]] > queue[mirrors[2]]

\* C20: a task is started only in a pass whose window end is after its queued
\* time, so never 60 or more before its queued time.
C20_NotEarlierThanWindow ==
    [][(PassStep /\ ~tasks[Current].running /\ tasks'[Current].running) =>
          /\ queue[Current] < end
          /\ queue[Current] - now < Minute
      ]_vars

C20_Witness ==
    /\ last.kind = "run"
    /\ tasks[last.task].running
    /\ last.qtime > now
    /\ last.qtime < end

\* C11: a running flag goes from true to false only in an exit notification
\* for the pid of that task, which changes no other task and leaves the
\* queue as it is: stop_task, stop_all_tasks, delay_task, run_task and
\* append_tasks never reset it.
C11_OnlyExitResets ==
    [][\A m \in Mirrors :
          (tasks[m].running /\ ~tasks'[m].running) =>
              /\ last'.kind = "exit"
              /\ last'.task = m
              /\ queue' = queue
              /\ \A k \in Mirrors \ {m} : tasks'[k] = tasks[k]
      ]_vars

C11_Witness ==
    /\ last.kind = "exit"
    /\ last.task \in Mirrors
    /\ ~tasks[last.task].running
    /\ signalled # {}
    /\ \E k \in Mirrors : tasks[k].running

\* C12: stop_all_tasks goes through the tasks in task-set order; a task that
\* is running when the loop is at it is sent the signal and the loop waits
\* until that process has exited before it goes on; a task that is not
\* running is not signalled; when stop_all_tasks returns, every running task
\* has been signalled and its process has exited.
C12_StopAllInOrder ==
    [][/\ (pc = "stop_loop" /\ pc' = "stop_wait") =>
            /\ tasks[idx].running
            /\ signalled' = signalled \cup {tasks[idx].pid}
            /\ idx' = idx
            /\ \A k \in 1..(idx - 1) :
                  tasks[k].running => tasks[k].pid \in dead
       /\ (pc = "stop_loop" /\ pc' = "stop_loop" /\ idx' # idx) =>
            /\ ~tasks[idx].running
            /\ signalled' = signalled
            /\ idx' = idx + 1
       /\ (pc = "stop_wait" /\ pc' # "stop_wait") =>
            /\ tasks[idx].pid \in dead
            /\ pc' = "stop_loop"
            /\ idx' = idx + 1
       /\ (pc = "stop_loop" /\ pc' = "stopped") =>
            \A m \in Mirrors : tasks[m].running =>
                /\ tasks[m].pid \in dead
                /\ tasks[m].pid \in signalled
      ]_vars

C12_Witness ==
    /\ pc = "stopped"
    /\ Cardinality(RunningSet(tasks)) > 1
    /\ \A m \in RunningSet(tasks) : tasks[m].pid \in signalled
    /\ \A m \in RunningSet(tasks) : tasks[m].pid \in dead

C17_NoOps ==
    [][/\ (/\ last'.kind = "stop_task"
           /\ pc = "idle"
           /\ (last'.task \notin Mirrors \/ ~tasks[last'.task].running)) =>
              UNCHANGED <<tasks, queue, signalled, dead, pc>>
       /\ (/\ last'.kind = "delay_task"
           /\ pc = "idle"
           /\ last'.task \notin DOMAIN queue) =>
              UNCHANGED <<tasks, queue, signalled, dead, pc>>
       /\ (/\ last'.kind = "stop_task"
           /\ pc = "idle"
           /\ last'.task \in Mirrors
           /\ tasks[last'.task].running) =>
              /\ signalled' = signalled \cup {tasks[last'.task].pid}
              /\ UNCHANGED <<tasks, queue, dead, pc>>
      ]_vars

C17_Witness ==
    /\ last.kind = "stop_task"
    /\ last.task \in Mirrors
    /\ tasks[last.task].running
    /\ tasks[last.task].pid \notin dead
    /\ tasks[last.task].pid \in signalled
    /\ pc = "idle"

\* C18: with an exit notification possible between any two statements of the
\* main loop, it is never blocked, a task is started only while it is not
\* running, a running task has a queue entry only between its task.run() and
\* the del of its entry, and every task that is enabled and not running when
\* append_tasks() is entered is in the queue when append_tasks() is done.
NoRunningQueued ==
    \A m \in Mirrors :
       (tasks[m].running /\ m \in DOMAIN queue) =>
           (pc = "run_del" /\ m = mirrors[idx])

Requeued == pc = "sort" => eligible \subseteq DOMAIN queue

C18_Interleaving ==
    [][/\ (exits < MaxExits /\ pc # "crashed") => ENABLED ExitNotify
       /\ \A m \in Mirrors :
             (tasks'[m].running /\ tasks'[m] # tasks[m]) =>
                 /\ ~tasks[m].running
                 /\ pc = "schedule"
                 /\ m = mirrors[idx]
       /\ NoRunningQueued'
       /\ Requeued'
      ]_vars

C18_Witness ==
    /\ pc = "run_del"
    /\ last.kind = "exit"
    /\ last.task = mirrors[idx]
    /\ ~tasks[mirrors[idx]].running
    /\ mirrors[idx] \in DOMAIN queue

====
